---------------------------- MODULE Spec2Model ----------------------------
(***************************************************************************)
(* State-machine model of the OBAQ training core:                          *)
(*   src/trainer/trainer.py  TrainingLog, Trainer (register/train/test/    *)
(*                           forward)                                      *)
(*   src/train.py            main(), the driver                            *)
(* The LR Scheduler, the Q-Scheduler, the AverageMeter and the model are   *)
(* imported by trainer.py but their code is not part of src/; they are     *)
(* modelled from spec.md (sections 3, 4.1, 4.2, 6) and marked so in        *)
(* MODEL_MAP.json.                                                         *)
(*                                                                         *)
(* Two specifications:                                                     *)
(*   Spec      a caller that constructs a Trainer, registers it and then   *)
(*             issues any sequence of train(epoch)/test(epoch) calls;      *)
(*             Trainer.forward is stepped statement by statement.          *)
(*   SpecMain  the driver main() of src/train.py, statement by statement.  *)
(***************************************************************************)
EXTENDS Integers, Sequences, FiniteSets

\* ------------------------------------------------------------------ bounds
\* Largest number of batches a data source yields (len(dataloader)).
MaxBatches == 2
\* Largest number of train/test calls the caller issues in one run.
MaxPasses == 2
\* Largest warm_up_epoch of the LR Scheme.
MaxWarmUp == 1
\* Largest --epochs value given to the driver.
MaxEpochs == 2

\* Largest number of load_config calls between two other calls of the Trainer.
MaxLoads == 1

\* Largest warm_up_epoch and batches_per_epoch of the LR-schedule specification.
MaxLrWarmUp == 3
MaxLrBatches == 4

\* log_freq values tried: negative, zero, one, and a value that skips batches.
LogFreqs == {-1, 0, 1, 2}

\* ------------------------------------------------------- program constants
\* --target_bit_W / --target_bit_bA defaults of the driver.
target_bit_W == 2
target_bit_bA == 2

VARIABLES
    \* Trainer fields (Trainer.__init__)
    log_freq,        \* self.log_freq
    train_loader,    \* len(self.train_loader): batches of the training source
    test_loader,     \* len(self.test_loader)
    scheduler,       \* self.scheduler: the LR Scheduler's fields
    optimizer,       \* the optimizer the LR Scheduler owns
    q_params,        \* self.q_scheduler's Quantization Parameters, in order
    model_mode,      \* self.model's mode: "init" | "train" | "eval"
    training_log,    \* self.training_log: update count of each AverageMeter
    \* position inside the current call of the Trainer
    pc,              \* control location
    train,           \* forward's argument train
    epoch,           \* forward's argument epoch
    batch,           \* enumerate index of the batch being (or next to be) processed
    trace,           \* collaborator operations invoked by the current call, in order
    logged,          \* batch indices for which training_log.log was called in this call
    dataloader,      \* len(dataloader): forward's argument dataloader
    outcome,         \* "ok" or the exception that ended the run
    passes,          \* number of train/test calls issued so far
    register_calls,  \* number of Trainer.register calls so far
    config_loads,    \* load_config calls that returned since the last other call
    \* the driver main()
    main_pc,         \* control location in main()
    args,            \* parsed command line
    wandb_log,       \* main's local wandb_log
    files            \* names of the files written so far, one entry per write

vars == <<log_freq, train_loader, test_loader, scheduler, optimizer, q_params,
          model_mode, training_log, pc, train, epoch, batch, trace, logged,
          dataloader, outcome, passes, register_calls, config_loads,
          main_pc, args, wandb_log, files>>

trainer_fields == <<log_freq, train_loader, test_loader>>
sched_vars == <<scheduler, optimizer, q_params>>
call_vars == <<train, epoch, batch, dataloader>>
main_vars == <<main_pc, args, wandb_log, files>>
count_vars == <<passes, register_calls, config_loads>>


\* ------------------------------------------------------------ AverageMeter
\* utils.meters.AverageMeter: only the number of updates since the last reset
\* is kept (the meter's count field).
MeterReset == 0

MeterUpdate(m) == m + 1

\* -------------------------------------------------------------- TrainingLog
Meters == {"batch_time", "data_time", "losses", "top1", "top5"}

\* TrainingLog.__init__: five fresh meters.
TrainingLogInit == [m \in Meters |-> MeterReset]

\* A reset that forgets one meter.
TrainingLogReset_NoTop5(log) ==
    [log EXCEPT !["batch_time"] = MeterReset,
                !["data_time"] = MeterReset,
                !["losses"] = MeterReset,
                !["top1"] = MeterReset]

\* TrainingLog.reset: resets each of the five meters.
TrainingLogReset(log) ==
    [log EXCEPT !["batch_time"] = MeterReset,
                !["data_time"] = MeterReset,
                !["losses"] = MeterReset,
                !["top1"] = MeterReset,
                !["top5"] = MeterReset]

\* ------------------------------------------------------------ LR Scheduler
\* A learning rate is the fraction num/den of init_lr.
InitLr == [num |-> 1, den |-> 1]

\* A ramp that advances once per epoch instead of once per batch.
get_lr_PerEpoch(sch, e, b) ==
    IF e < sch.warm_up_epoch
    THEN [num |-> (e + 1) * sch.batches_per_epoch,
          den |-> sch.warm_up_epoch * sch.batches_per_epoch]
    ELSE InitLr

\* get_lr(epoch, batch_in_epoch): linear ramp during warmup, init_lr afterwards.
get_lr(sch, e, b) ==
    IF e < sch.warm_up_epoch
    THEN [num |-> e * sch.batches_per_epoch + b + 1,
          den |-> sch.warm_up_epoch * sch.batches_per_epoch]
    ELSE InitLr

\* Scheduler(optimizer, scheme, batches_per_epoch)
SchedulerInit(warm, bpe) ==
    LET s0 == [warm_up_epoch |-> warm, batches_per_epoch |-> bpe,
               epoch |-> 0, batch_in_epoch |-> 0, lr |-> InitLr]
    IN [s0 EXCEPT !.lr = get_lr(s0, 0, 0)]

\* Scheduler.zero_grad: delegates to the optimizer, no local state change.
OptimizerZeroGrad(opt) == [opt EXCEPT !.grad = "zero"]

\* loss.backward(): gradients of the parameters the optimizer holds are filled.
OptimizerBackward(opt) == [opt EXCEPT !.grad = "set"]

\* Scheduler.step: recompute lr, apply it to the optimizer's parameter groups
\* (the optimizer takes its update step), then advance batch_in_epoch.
SchedulerStep(sch) ==
    [sch EXCEPT !.lr = get_lr(sch, sch.epoch, sch.batch_in_epoch),
                !.batch_in_epoch = sch.batch_in_epoch + 1]

OptimizerStep(opt, sch) ==
    [opt EXCEPT !.lr = get_lr(sch, sch.epoch, sch.batch_in_epoch)]

\* Scheduler.update_epoch: advance epoch, reset batch_in_epoch.
SchedulerUpdateEpoch(sch) ==
    [sch EXCEPT !.epoch = sch.epoch + 1, !.batch_in_epoch = 0]

\* ------------------------------------------------------------- Q-Scheduler
\* Step sizes are integers on a fixed grid; calibration yields the bracket
\* [0, 8] for every tensor and K starts at its coarsest value.
BitsOf(K) == IF K <= 2 THEN 3 ELSE IF K <= 5 THEN 2 ELSE 1

QParamInit(id, role) ==
    [id |-> id, role |-> role, lo |-> 0, hi |-> 8, K |-> 8, sensitivity |-> 0,
     target_bits |-> IF role = "W" THEN target_bit_W ELSE target_bit_bA,
     state |-> "Searching"]

\* Q_Optimizer(q_params_list) after model.register(): one weight tensor and one
\* activation tensor, in registration order.
QOptimizerRegister == <<QParamInit(1, "W"), QParamInit(2, "bA")>>

\* Q_Scheduler.zero_sensitivity
QZeroSensitivity(ps) ==
    [i \in DOMAIN ps |-> [ps[i] EXCEPT !.sensitivity = 0, !.state = "Searching"]]

\* accumulate(id, delta), invoked by the compute collaborator during a forward
\* pass of a training epoch.
QAccumulate(ps, d) ==
    [i \in DOMAIN ps |-> [ps[i] EXCEPT !.sensitivity = ps[i].sensitivity + d[i]]]

\* A step that slides the bracket upwards instead of narrowing it when the
\* bit width is too high.
QStepParam_Slide(p) ==
    LET mid == (p.lo + p.hi) \div 2
        b == BitsOf(mid)
        lo2 == IF b > p.target_bits \/ (b = p.target_bits /\ p.sensitivity = 0)
               THEN mid ELSE p.lo
        hi2 == IF b > p.target_bits THEN p.hi + (p.hi - mid)
               ELSE IF b < p.target_bits \/ (b = p.target_bits /\ p.sensitivity > 0)
               THEN mid ELSE p.hi
    IN [p EXCEPT !.lo = lo2, !.hi = hi2, !.K = mid,
                 !.state = IF hi2 - lo2 <= 1 THEN "Converged" ELSE "Searching"]

\* One bracket-narrowing step of one parameter (spec 4.2, steps 1-6).
QStepParam(p) ==
    LET mid == (p.lo + p.hi) \div 2
        b == BitsOf(mid)
        lo2 == IF b > p.target_bits \/ (b = p.target_bits /\ p.sensitivity = 0)
               THEN mid ELSE p.lo
        hi2 == IF b < p.target_bits \/ (b = p.target_bits /\ p.sensitivity > 0)
               THEN mid ELSE p.hi
    IN [p EXCEPT !.lo = lo2, !.hi = hi2, !.K = mid,
                 !.state = IF hi2 - lo2 <= 1 THEN "Converged" ELSE "Searching"]

\* Q_Scheduler.step: every parameter independently.
QStep(ps) == [i \in DOMAIN ps |-> QStepParam(ps[i])]

\* --------------------------------------------------------------- utilities
\* Python's batch % log_freq for batch >= 0 and log_freq # 0: the result has
\* the sign of the divisor.
PyMod(a, b) ==
    IF b > 0 THEN a % b
    ELSE LET m == a % (0 - b) IN IF m = 0 THEN 0 ELSE m + b

Count(seq, x) == Cardinality({i \in DOMAIN seq : seq[i] = x})

\* Positions of x in seq.
Pos(seq, x) == {i \in DOMAIN seq : seq[i] = x}

Last(seq) == seq[Len(seq)]

\* ------------------------------------------------------------------ Trainer
\* Parameters of Trainer.__init__ (self excluded).
TrainerInitParams ==
    {"model", "scheduler", "q_scheduler", "criterion", "train_loader",
     "test_loader", "device", "training_log", "log_freq"}

\* get_optimizer('SGD', params): lr = 0.1, the default init_lr, no gradients yet.
get_optimizer == [lr |-> InitLr, grad |-> "none"]

\* Trainer.__init__: stores its arguments; nothing is validated.
TrainerInit(lf, ntrain, ntest) ==
    /\ log_freq' = lf
    /\ train_loader' = ntrain
    /\ test_loader' = ntest
    /\ training_log' = TrainingLogInit

\* Skip-and-continue: the exception is recorded and the loop goes on with the
\* next batch.
Raise_SkipAndContinue(kind) ==
    /\ pc' = "loop"
    /\ batch' = batch + 1
    /\ outcome' = kind
    /\ UNCHANGED <<trainer_fields, sched_vars, model_mode, training_log,
                   train, epoch, dataloader, trace, logged, count_vars, main_vars>>

\* An exception leaves the current call and is not caught anywhere.
Raise(kind) ==
    /\ pc' = "raised"
    /\ outcome' = kind
    /\ UNCHANGED <<trainer_fields, sched_vars, model_mode, training_log,
                   call_vars, trace, logged, count_vars, main_vars>>

\* A caller builds the schedulers and the Trainer. (It numbers its later
\* train/test calls: the epoch argument is the count of calls issued before.)
New ==
    /\ pc = "start"
    /\ \E lf \in LogFreqs, ntrain \in 0..MaxBatches, ntest \in 0..MaxBatches,
          bpe \in 1..MaxBatches, warm \in 0..MaxWarmUp :
          /\ TrainerInit(lf, ntrain, ntest)
          /\ scheduler' = SchedulerInit(warm, bpe)
    /\ optimizer' = get_optimizer
    /\ pc' = "constructed"
    /\ UNCHANGED <<q_params, model_mode, call_vars, trace, logged, outcome,
                   count_vars, main_vars>>

\* A register that binds the Q-Scheduler first.
Register_QFirst ==
    /\ pc = "constructed"
    /\ q_params' = QOptimizerRegister
    /\ trace' = <<"q_scheduler.register">>
    /\ register_calls' = register_calls + 1
    /\ config_loads' = 0
    /\ pc' = "calibrate"
    /\ UNCHANGED <<trainer_fields, scheduler, optimizer, model_mode,
                   training_log, call_vars, logged, outcome, passes, main_vars>>

\* Trainer.register(dummy_input), first statement: self.model.register()
Register ==
    /\ pc = "constructed"
    /\ trace' = <<"model.register">>
    /\ register_calls' = register_calls + 1
    /\ config_loads' = 0
    /\ pc' = "calibrate"
    /\ UNCHANGED <<trainer_fields, sched_vars, model_mode,
                   training_log, call_vars, logged, outcome, passes, main_vars>>

\* dummy_output = self.model(dummy_input): the calibration forward pass.
RegisterCalibrate ==
    /\ pc = "calibrate"
    /\ \/ /\ trace' = Append(trace, "model.forward")
          /\ pc' = "q_register"
          /\ UNCHANGED <<trainer_fields, sched_vars, model_mode, training_log,
                         call_vars, logged, outcome, count_vars, main_vars>>
       \/ Raise("ComputeError")

\* self.q_scheduler.register(): the quantization parameters are bound.
RegisterQScheduler ==
    /\ pc = "q_register"
    /\ q_params' = QOptimizerRegister
    /\ trace' = Append(trace, "q_scheduler.register")
    /\ pc' = "idle"
    /\ UNCHANGED <<trainer_fields, scheduler, optimizer, model_mode,
                   training_log, call_vars, logged, outcome, count_vars, main_vars>>

\* What the file given to load_config holds: the schemes save_config wrote,
\* other scheme values, text that is not JSON, or nothing (no such file).
ConfigFiles == {"same", "different", "malformed", "missing"}

\* A load that re-applies the parsed LR Scheme to the live scheduler.
LoadConfig_Apply(content) ==
    /\ pc \in {"constructed", "idle"}
    /\ config_loads < MaxLoads
    /\ content \in {"same", "different"}
    /\ config_loads' = config_loads + 1
    /\ scheduler' = IF content = "different"
                    THEN [scheduler EXCEPT !.warm_up_epoch = scheduler.warm_up_epoch + 1]
                    ELSE scheduler
    /\ UNCHANGED <<trainer_fields, optimizer, q_params, model_mode, training_log,
                   pc, call_vars, trace, logged, outcome, passes, register_calls,
                   main_vars>>

\* Trainer.load_config(trainer_config_path): open, json.load, print. The
\* parsed document is a local that is dropped; open and json.load raise on a
\* missing or malformed file.
LoadConfig(content) ==
    /\ pc \in {"constructed", "idle"}
    /\ config_loads < MaxLoads
    /\ \/ /\ content \in {"same", "different"}
          /\ config_loads' = config_loads + 1
          /\ UNCHANGED <<trainer_fields, sched_vars, model_mode, training_log,
                         pc, call_vars, trace, logged, outcome, passes,
                         register_calls, main_vars>>
       \/ /\ content = "missing"
          /\ Raise("FileNotFoundError")
       \/ /\ content = "malformed"
          /\ Raise("JSONDecodeError")

\* Entry of forward(epoch, dataloader, train).
Enter(e, loader, tr) ==
    /\ pc = "idle"
    /\ passes < MaxPasses
    /\ passes' = passes + 1
    /\ config_loads' = 0
    /\ epoch' = e
    /\ dataloader' = loader
    /\ train' = tr
    /\ batch' = 0
    /\ trace' = <<>>
    /\ logged' = {}
    /\ pc' = "forward"
    /\ UNCHANGED <<trainer_fields, sched_vars, model_mode, training_log,
                   outcome, register_calls, main_vars>>

\* Trainer.train(epoch)
Train(e) == Enter(e, train_loader, TRUE)

\* Trainer.test(epoch)
Test(e) == Enter(e, test_loader, FALSE)

\* zero_sensitivity moved out of the `if train` branch.
ForwardBegin_ZeroAlways ==
    /\ pc = "forward"
    /\ model_mode' = IF train THEN "train" ELSE "eval"
    /\ q_params' = QZeroSensitivity(q_params)
    /\ trace' = trace \o <<IF train THEN "model.train" ELSE "model.eval",
                           "q_scheduler.zero_sensitivity", "training_log.reset">>
    /\ training_log' = TrainingLogReset(training_log)
    /\ pc' = "loop"
    /\ UNCHANGED <<trainer_fields, scheduler, optimizer, call_vars, logged,
                   outcome, count_vars, main_vars>>

\* forward, before the loop: mode switch, zero_sensitivity (training only),
\* training_log.reset().
ForwardBegin ==
    /\ pc = "forward"
    /\ IF train
       THEN /\ model_mode' = "train"
            /\ q_params' = QZeroSensitivity(q_params)
            /\ trace' = trace \o <<"model.train", "q_scheduler.zero_sensitivity",
                                   "training_log.reset">>
       ELSE /\ model_mode' = "eval"
            /\ q_params' = q_params
            /\ trace' = trace \o <<"model.eval", "training_log.reset">>
    /\ training_log' = TrainingLogReset(training_log)
    /\ pc' = "loop"
    /\ UNCHANGED <<trainer_fields, scheduler, optimizer, call_vars, logged,
                   outcome, count_vars, main_vars>>

\* for batch, (inputs, labels) in enumerate(dataloader): the next batch, the
\* end of the data source, or a batch that cannot be produced.
LoopNext ==
    /\ pc = "loop"
    /\ \/ /\ batch < dataloader
          /\ trace' = Append(trace, "fetch")
          /\ pc' = "data_time"
          /\ UNCHANGED <<trainer_fields, sched_vars, model_mode, training_log,
                         call_vars, logged, outcome, count_vars, main_vars>>
       \/ /\ batch < dataloader
          /\ Raise("DataError")
       \/ /\ batch >= dataloader
          /\ pc' = "end"
          /\ UNCHANGED <<trainer_fields, sched_vars, model_mode, training_log,
                         call_vars, trace, logged, outcome, count_vars, main_vars>>

\* self.training_log.data_time.update(...)
BatchDataTime ==
    /\ pc = "data_time"
    /\ training_log' = [training_log EXCEPT
                          !["data_time"] = MeterUpdate(training_log["data_time"])]
    /\ trace' = Append(trace, "data_time.update")
    /\ pc' = "zero_grad"
    /\ UNCHANGED <<trainer_fields, sched_vars, model_mode, call_vars, logged,
                   outcome, count_vars, main_vars>>

\* self.scheduler.zero_grad()
BatchZeroGrad ==
    /\ pc = "zero_grad"
    /\ optimizer' = OptimizerZeroGrad(optimizer)
    /\ trace' = Append(trace, "scheduler.zero_grad")
    /\ pc' = "model"
    /\ UNCHANGED <<trainer_fields, scheduler, q_params, model_mode, training_log,
                   call_vars, logged, outcome, count_vars, main_vars>>

\* inputs/labels to the device and outputs = self.model(inputs); in training
\* mode the quantized tensors report their sensitivity.
BatchModel ==
    /\ pc = "model"
    /\ \/ /\ IF model_mode = "train"
             THEN \E d \in [DOMAIN q_params -> {0, 1}] :
                      q_params' = QAccumulate(q_params, d)
             ELSE q_params' = q_params
          /\ trace' = Append(trace, "model.forward")
          /\ pc' = "criterion"
          /\ UNCHANGED <<trainer_fields, scheduler, optimizer, model_mode,
                         training_log, call_vars, logged, outcome, count_vars,
                         main_vars>>
       \/ Raise("ComputeError")

\* loss = self.criterion(outputs, labels)
BatchCriterion ==
    /\ pc = "criterion"
    /\ \/ /\ trace' = Append(trace, "criterion")
          /\ pc' = "backward"
          /\ UNCHANGED <<trainer_fields, sched_vars, model_mode, training_log,
                         call_vars, logged, outcome, count_vars, main_vars>>
       \/ Raise("ComputeError")

\* The LR Scheduler step taken before the backward pass.
BatchBackwardStep_StepFirst ==
    /\ pc = "backward"
    /\ \/ /\ train
          /\ optimizer' = OptimizerBackward(OptimizerStep(optimizer, scheduler))
          /\ scheduler' = SchedulerStep(scheduler)
          /\ trace' = trace \o <<"scheduler.step", "loss.backward">>
          /\ pc' = "accuracy"
          /\ UNCHANGED <<trainer_fields, q_params, model_mode, training_log,
                         call_vars, logged, outcome, count_vars, main_vars>>
       \/ /\ ~train
          /\ pc' = "accuracy"
          /\ UNCHANGED <<trainer_fields, sched_vars, model_mode, training_log,
                         call_vars, trace, logged, outcome, count_vars, main_vars>>

\* backward and step without the `if train` guard.
BatchBackwardStep_NoGuard ==
    /\ pc = "backward"
    /\ optimizer' = OptimizerStep(OptimizerBackward(optimizer), scheduler)
    /\ scheduler' = SchedulerStep(scheduler)
    /\ trace' = trace \o <<"loss.backward", "scheduler.step">>
    /\ pc' = "accuracy"
    /\ UNCHANGED <<trainer_fields, q_params, model_mode, training_log,
                   call_vars, logged, outcome, count_vars, main_vars>>

\* if train: loss.backward(); self.scheduler.step()
BatchBackwardStep ==
    /\ pc = "backward"
    /\ \/ /\ train
          /\ optimizer' = OptimizerStep(OptimizerBackward(optimizer), scheduler)
          /\ scheduler' = SchedulerStep(scheduler)
          /\ trace' = trace \o <<"loss.backward", "scheduler.step">>
          /\ pc' = "accuracy"
          /\ UNCHANGED <<trainer_fields, q_params, model_mode, training_log,
                         call_vars, logged, outcome, count_vars, main_vars>>
       \/ /\ train
          /\ Raise("ComputeError")
       \/ /\ ~train
          /\ pc' = "accuracy"
          /\ UNCHANGED <<trainer_fields, sched_vars, model_mode, training_log,
                         call_vars, trace, logged, outcome, count_vars, main_vars>>

\* prec = meters.accuracy(outputs.detach(), labels, (1, 5))
BatchAccuracy ==
    /\ pc = "accuracy"
    /\ trace' = Append(trace, "accuracy")
    /\ pc' = "log_update"
    /\ UNCHANGED <<trainer_fields, sched_vars, model_mode, training_log,
                   call_vars, logged, outcome, count_vars, main_vars>>

\* batch_time, losses, top1 and top5 updates
BatchLogUpdate ==
    /\ pc = "log_update"
    /\ training_log' = [training_log EXCEPT
                          !["batch_time"] = MeterUpdate(training_log["batch_time"]),
                          !["losses"] = MeterUpdate(training_log["losses"]),
                          !["top1"] = MeterUpdate(training_log["top1"]),
                          !["top5"] = MeterUpdate(training_log["top5"])]
    /\ trace' = Append(trace, "training_log.update")
    /\ pc' = "log_emit"
    /\ UNCHANGED <<trainer_fields, sched_vars, model_mode, call_vars, logged,
                   outcome, count_vars, main_vars>>

\* A log test on the one-based batch number.
BatchLogEmit_OneBased ==
    /\ pc = "log_emit"
    /\ \/ /\ log_freq = 0
          /\ Raise("ZeroDivisionError")
       \/ /\ log_freq # 0
          /\ logged' = IF PyMod(batch + 1, log_freq) = 0
                       THEN logged \cup {batch} ELSE logged
          /\ batch' = batch + 1
          /\ pc' = "loop"
          /\ UNCHANGED <<trainer_fields, sched_vars, model_mode, training_log,
                         train, epoch, dataloader, trace, outcome, count_vars,
                         main_vars>>

\* if batch % self.log_freq == 0: self.training_log.log(batch); then the loop
\* goes to the next batch.
BatchLogEmit ==
    /\ pc = "log_emit"
    /\ \/ /\ log_freq = 0
          /\ Raise("ZeroDivisionError")
       \/ /\ log_freq # 0
          /\ logged' = IF PyMod(batch, log_freq) = 0
                       THEN logged \cup {batch} ELSE logged
          /\ batch' = batch + 1
          /\ pc' = "loop"
          /\ UNCHANGED <<trainer_fields, sched_vars, model_mode, training_log,
                         train, epoch, dataloader, trace, outcome, count_vars,
                         main_vars>>

\* The two epoch-end calls in the opposite order.
ForwardEnd_Swapped ==
    /\ pc = "end"
    /\ IF train
       THEN /\ scheduler' = SchedulerUpdateEpoch(scheduler)
            /\ q_params' = QStep(q_params)
            /\ trace' = trace \o <<"q_scheduler.step", "scheduler.update_epoch">>
       ELSE UNCHANGED <<scheduler, q_params, trace>>
    /\ pc' = "idle"
    /\ UNCHANGED <<trainer_fields, optimizer, model_mode, training_log,
                   call_vars, logged, outcome, count_vars, main_vars>>

\* forward, after the loop: update_epoch() and q_scheduler.step() (training
\* only), then the epoch/lr line is printed and the call returns.
ForwardEnd ==
    /\ pc = "end"
    /\ IF train
       THEN /\ scheduler' = SchedulerUpdateEpoch(scheduler)
            /\ q_params' = QStep(q_params)
            /\ trace' = trace \o <<"scheduler.update_epoch", "q_scheduler.step">>
       ELSE UNCHANGED <<scheduler, q_params, trace>>
    /\ pc' = "idle"
    /\ UNCHANGED <<trainer_fields, optimizer, model_mode, training_log,
                   call_vars, logged, outcome, count_vars, main_vars>>

\* The command line is not looked at by a caller other than main().
NoArgs ==
    [epochs |-> 0, log_freq |-> 0, warm_up_epoch |-> 0,
     wandb_project |-> "None", trainer_config |-> "None"]

Init ==
    /\ log_freq = 0
    /\ train_loader = 0
    /\ test_loader = 0
    /\ scheduler = SchedulerInit(0, 1)
    /\ optimizer = get_optimizer
    /\ q_params = <<>>
    /\ model_mode = "init"
    /\ training_log = TrainingLogInit
    /\ pc = "start"
    /\ train = FALSE
    /\ epoch = 0
    /\ batch = 0
    /\ dataloader = 0
    /\ trace = <<>>
    /\ logged = {}
    /\ outcome = "ok"
    /\ passes = 0
    /\ register_calls = 0
    /\ config_loads = 0
    /\ main_pc = "none"
    /\ args = NoArgs
    /\ wandb_log = FALSE
    /\ files = <<>>

Next ==
    \/ New
    \/ Register
    \/ RegisterCalibrate
    \/ RegisterQScheduler
    \/ \E content \in ConfigFiles : LoadConfig(content)
    \/ Train(passes)
    \/ Test(passes)
    \/ ForwardBegin
    \/ LoopNext
    \/ BatchDataTime
    \/ BatchZeroGrad
    \/ BatchModel
    \/ BatchCriterion
    \/ BatchBackwardStep
    \/ BatchAccuracy
    \/ BatchLogUpdate
    \/ BatchLogEmit
    \/ ForwardEnd

Spec == Init /\ [][Next]_vars

\* ------------------------------------------------------------------- main()
\* parser.parse_args(): the arguments the model follows.
ArgsSet ==
    [epochs : 0..MaxEpochs, log_freq : LogFreqs, warm_up_epoch : 0..MaxWarmUp,
     wandb_project : {"None", "project"}, trainer_config : {"None", "config"}]

\* Keyword arguments of the Trainer(...) call in main().
MainTrainerKwargs ==
    {"model", "scheduler", "q_scheduler", "criterion", "train_loader",
     "test_loader", "device", "log_freq", "wandb_logger"}

\* Seeds, save path, args.json.
MainGlobalSetting ==
    /\ main_pc = "global_setting"
    /\ files' = Append(files, "args.json")
    /\ main_pc' = "wandb"
    /\ UNCHANGED <<trainer_fields, sched_vars, model_mode, training_log, pc,
                   call_vars, trace, logged, outcome, count_vars, args, wandb_log>>

\* wandb_log = args.wandb_project is not None; wandb.init when set.
MainWandbSetting ==
    /\ main_pc = "wandb"
    /\ wandb_log' = (args.wandb_project # "None")
    /\ trace' = IF args.wandb_project # "None"
                THEN Append(trace, "wandb.init") ELSE trace
    /\ main_pc' = "data_loading"
    /\ UNCHANGED <<trainer_fields, sched_vars, model_mode, training_log, pc,
                   call_vars, logged, outcome, count_vars, args, files>>

\* The two DataLoaders; their lengths depend on the dataset on disk.
MainDataLoading ==
    /\ main_pc = "data_loading"
    /\ \E ntrain \in 0..MaxBatches, ntest \in 0..MaxBatches :
          /\ train_loader' = ntrain
          /\ test_loader' = ntest
    /\ main_pc' = "model_creating"
    /\ UNCHANGED <<log_freq, sched_vars, model_mode, training_log, pc,
                   call_vars, trace, logged, outcome, count_vars, args,
                   wandb_log, files>>

\* model, criterion, optimizer, scheme, scheduler, q_optimizer, q_scheme,
\* q_scheduler; both schedulers get batches_per_epoch = len(train_loader).
MainModelCreating ==
    /\ main_pc = "model_creating"
    /\ optimizer' = get_optimizer
    /\ scheduler' = SchedulerInit(args.warm_up_epoch, train_loader)
    /\ main_pc' = "trainer_creating"
    /\ UNCHANGED <<trainer_fields, q_params, model_mode, training_log, pc,
                   call_vars, trace, logged, outcome, count_vars, args,
                   wandb_log, files>>

\* trainer = Trainer(model=..., ..., log_freq=args.log_freq,
\* wandb_logger=wandb_logger): a keyword that names no parameter of
\* Trainer.__init__ is a TypeError, which nothing catches.
MainTrainerCreating ==
    /\ main_pc = "trainer_creating"
    /\ IF MainTrainerKwargs \subseteq TrainerInitParams
       THEN /\ TrainerInit(args.log_freq, train_loader, test_loader)
            /\ pc' = "constructed"
            /\ main_pc' = "load_config"
            /\ outcome' = outcome
       ELSE /\ main_pc' = "crashed"
            /\ outcome' = "TypeError"
            /\ UNCHANGED <<trainer_fields, training_log, pc>>
    /\ UNCHANGED <<sched_vars, model_mode, call_vars, trace, logged,
                   count_vars, args, wandb_log, files>>

InitMain ==
    /\ log_freq = 0
    /\ train_loader = 0
    /\ test_loader = 0
    /\ scheduler = SchedulerInit(0, 1)
    /\ optimizer = get_optimizer
    /\ q_params = <<>>
    /\ model_mode = "init"
    /\ training_log = TrainingLogInit
    /\ pc = "none"
    /\ train = FALSE
    /\ epoch = 0
    /\ batch = 0
    /\ dataloader = 0
    /\ trace = <<>>
    /\ logged = {}
    /\ outcome = "ok"
    /\ passes = 0
    /\ register_calls = 0
    /\ config_loads = 0
    /\ main_pc = "global_setting"
    /\ args \in ArgsSet
    /\ wandb_log = FALSE
    /\ files = <<>>

NextMain ==
    \/ MainGlobalSetting
    \/ MainWandbSetting
    \/ MainDataLoading
    \/ MainModelCreating
    \/ MainTrainerCreating

SpecMain == InitMain /\ [][NextMain]_vars

\* ================================================================== claims
\* Control locations inside the batch loop's body.
BodyPcs == {"data_time", "zero_grad", "model", "criterion", "backward",
            "accuracy", "log_update", "log_emit"}

\* A train/test call has been issued and trace is that call's record.
InCall == passes > 0

\* The call has returned normally.
Returned == passes > 0 /\ pc = "idle"

\* Exceptions raised inside forward's batch loop.
LoopExceptions == {"DataError", "ComputeError", "ZeroDivisionError"}

\* The call is inside forward, or died inside its batch loop.
InForward ==
    \/ pc \in ({"forward", "loop", "end"} \cup BodyPcs)
    \/ pc = "raised" /\ outcome \in LoopExceptions

RECURSIVE Rep(_, _)
Rep(seq, n) == IF n = 0 THEN <<>> ELSE seq \o Rep(seq, n - 1)

IsEpochEndOp(x) == x \in {"scheduler.update_epoch", "q_scheduler.step"}

\* C1: a train(epoch) call that completes its batch loop has invoked
\* update_epoch() exactly once and then q_scheduler.step() exactly once, as
\* the last two operations of the call, after every batch of the data source
\* was processed; while batches are being processed neither has been invoked;
\* a test(epoch) call invokes neither.
C1_EpochEndOrder ==
    InCall =>
        /\ (train /\ pc = "idle") =>
              /\ Len(trace) >= 2
              /\ trace[Len(trace) - 1] = "scheduler.update_epoch"
              /\ trace[Len(trace)] = "q_scheduler.step"
              /\ Count(trace, "scheduler.update_epoch") = 1
              /\ Count(trace, "q_scheduler.step") = 1
              /\ Count(trace, "training_log.update") = dataloader
        /\ (train /\ InForward) => SelectSeq(trace, IsEpochEndOp) = <<>>
        /\ ~train => SelectSeq(trace, IsEpochEndOp) = <<>>

\* C1 witness: a training call over a full data source has returned.
C1_Witness ==
    Returned /\ train /\ dataloader = MaxBatches /\ scheduler.epoch = 1

\* A step taken by a test(epoch) call, its entry included.
TestStep ==
    \/ pc = "idle" /\ pc' = "forward" /\ ~train'
    \/ pc \in ({"forward", "loop", "end"} \cup BodyPcs) /\ ~train

\* lr, epoch, batch_in_epoch and every parameter's K and state keep their values.
SchedulerFrame ==
    /\ scheduler'.lr = scheduler.lr
    /\ scheduler'.epoch = scheduler.epoch
    /\ scheduler'.batch_in_epoch = scheduler.batch_in_epoch
    /\ DOMAIN q_params' = DOMAIN q_params
    /\ \A i \in DOMAIN q_params :
          /\ q_params'[i].K = q_params[i].K
          /\ q_params'[i].state = q_params[i].state

\* C2: no step of a test(epoch) call changes the LR Scheduler's lr, epoch or
\* batch_in_epoch, nor any quantization parameter's K or state.
C2_TestLeavesSchedulersAlone == [][TestStep => SchedulerFrame]_vars

\* C2 witness: a test pass over at least one batch has returned after a
\* training pass that moved lr state, K and state.
C2_Witness ==
    /\ Returned /\ ~train /\ dataloader >= 1 /\ batch = dataloader
    /\ scheduler.epoch = 1
    /\ \E i \in DOMAIN q_params : q_params[i].K # QParamInit(i, "W").K

IsSchedulerOp(x) ==
    x \in {"scheduler.zero_grad", "scheduler.step", "scheduler.update_epoch",
           "loss.backward", "q_scheduler.zero_sensitivity", "q_scheduler.step"}

\* C3: during a test(epoch) call no operation of the LR Scheduler (zero_grad
\* included), of its optimizer or of the Q-Scheduler is invoked.
C3_TestInvokesNoSchedulerOp ==
    (InCall /\ ~train) => SelectSeq(trace, IsSchedulerOp) = <<>>

\* C4: a train(epoch) call invokes q_scheduler.zero_sensitivity() exactly
\* once, before any batch is fetched; a test(epoch) call never invokes it.
C4_ZeroSensitivityOncePerTrain ==
    InCall =>
        /\ (train /\ pc # "forward") =>
              /\ Count(trace, "q_scheduler.zero_sensitivity") = 1
              /\ \A i \in Pos(trace, "q_scheduler.zero_sensitivity"),
                    j \in Pos(trace, "fetch") : i < j
        /\ (train /\ pc = "forward") =>
              Count(trace, "q_scheduler.zero_sensitivity") = 0
        /\ ~train => Count(trace, "q_scheduler.zero_sensitivity") = 0

\* C4 witness: a training call has fetched its second batch.
C4_Witness ==
    InCall /\ train /\ pc = "data_time" /\ batch = 1

\* The operations C5 orders.
IsBatchOp(x) ==
    x \in {"scheduler.zero_grad", "model.forward", "criterion", "loss.backward",
           "scheduler.step", "accuracy", "training_log.update"}

TrainBatchOps ==
    <<"scheduler.zero_grad", "model.forward", "criterion", "loss.backward",
      "scheduler.step", "accuracy", "training_log.update">>

\* C5: in a training call, whenever the loop is between batches the batch
\* operations invoked so far are, batch after batch, zero_grad, forward,
\* loss, backward, scheduler.step, accuracy, Training Log update; and a call
\* that returned over n batches has invoked scheduler.step() n times, all
\* before update_epoch().
C5_BatchOrder ==
    (InCall /\ train) =>
        /\ pc \in {"loop", "end", "idle"} =>
              SelectSeq(trace, IsBatchOp) = Rep(TrainBatchOps, batch)
        /\ pc = "idle" =>
              /\ Count(trace, "scheduler.step") = dataloader
              /\ \A i \in Pos(trace, "scheduler.step"),
                    j \in Pos(trace, "scheduler.update_epoch") : i < j

\* C5 witness: a training call over two or more batches has returned.
C5_Witness ==
    Returned /\ train /\ dataloader >= 2 /\ Count(trace, "scheduler.step") >= 2

\* C6: the run has called register exactly once when it ends, and whenever a
\* train or test call has been issued register has run exactly once before.
C6_RegisterOnceBeforeTrainTest ==
    /\ main_pc \in {"crashed", "done"} => register_calls = 1
    /\ passes > 0 => register_calls = 1

\* C7: once an exception is raised inside the batch loop the call is dead:
\* it never returns normally, nothing more is invoked, no batch is processed
\* or retried, no scheduler, parameter or log state changes, and the call has
\* invoked neither update_epoch() nor q_scheduler.step().
C7_BatchExceptionIsFatal ==
    [][/\ outcome' # "ok" => pc' = "raised"
       /\ (passes' > 0 /\ outcome' \in LoopExceptions) =>
             SelectSeq(trace', IsEpochEndOp) = <<>>
       /\ outcome # "ok" =>
             UNCHANGED <<pc, trace, batch, scheduler, optimizer, q_params,
                         training_log, logged, passes>>]_vars

\* C7 witness: a training call raised while processing its second batch.
C7_Witness ==
    /\ pc = "raised" /\ outcome = "ComputeError" /\ train /\ batch = 1
    /\ Last(trace) = "criterion"

\* C8: a Trainer whose log_freq is zero or negative never completes a train
\* or test pass normally.
C8_NonPositiveLogFreqRejected ==
    (pc # "start" /\ log_freq <= 0) => ~Returned

\* C9: a Trainer built over a training data source whose batch count differs
\* from the LR Scheduler's batches_per_epoch is rejected by the construction:
\* the run has ended in an error and no batch has been processed.
C9_BatchCountMismatchRejected ==
    (pc # "start" /\ train_loader # scheduler.batches_per_epoch) =>
        (outcome # "ok" /\ passes = 0)

\* C10: after the reset at the start of a train or test call, between batches
\* and after the loop each of the five accumulators has been updated exactly
\* as many times as batches were processed since the reset; inside a batch an
\* accumulator counts that batch too once its update has run, and nothing else.
C10_LogCountsBatchesSinceReset ==
    InCall =>
        /\ pc \in {"loop", "end", "idle"} =>
              \A m \in Meters : training_log[m] = batch
        /\ pc \in BodyPcs =>
              /\ training_log["data_time"] =
                    IF pc = "data_time" THEN batch ELSE batch + 1
              /\ \A m \in Meters \ {"data_time"} :
                    training_log[m] = IF pc = "log_emit" THEN batch + 1 ELSE batch
        /\ pc = "raised" =>
              \A m \in Meters : training_log[m] \in {batch, batch + 1}

\* C10 witness: the second call, a test pass following a training pass of two
\* batches, is between its first and its second batch.
C10_Witness ==
    /\ passes = 2 /\ ~train /\ pc = "loop" /\ batch = 1
    /\ scheduler.epoch = 1 /\ train_loader = 2
    /\ training_log["top5"] = 1

\* The driver's run is over: main() returned or died of an uncaught exception.
MainEnded == main_pc \in {"crashed", "done"}

\* C11: when the driver's run is over the config document trainer_config.json
\* has been written exactly once, after Trainer.register() ran; and it is
\* never written after a train call was issued.
C11_ConfigWrittenOnceAfterRegister ==
    /\ MainEnded =>
          /\ Count(files, "trainer_config.json") = 1
          /\ register_calls = 1
    /\ Count(files, "trainer_config.json") > 0 => register_calls = 1
    /\ passes > 0 => Count(files, "trainer_config.json") = 1

\* A step of load_config: one that returned, or one that raised.
LoadStep ==
    \/ config_loads' = config_loads + 1
    \/ pc \in {"constructed", "idle"} /\ pc' = "raised"

\* C12: a load_config call, whatever the file holds and whether it returns or
\* raises, leaves the Trainer's fields, the LR Scheme and LR Scheduler, the
\* optimizer, the quantization parameters, the model's mode and the Training
\* Log as they were.
C12_LoadConfigMutatesNothing ==
    [][LoadStep => UNCHANGED <<log_freq, train_loader, test_loader, scheduler,
                               optimizer, q_params, model_mode, training_log>>]_vars

\* C12 witness: load_config has returned on a Trainer that has trained an
\* epoch.
C12_Witness ==
    config_loads = 1 /\ pc = "idle" /\ passes >= 1 /\ scheduler.epoch = 1

\* C14: no step of the system, and so no call of Q-Scheduler.step(), widens a
\* registered quantization parameter's bracket: lo never decreases and hi
\* never increases.
C14_BracketNeverGrows ==
    [][q_params # <<>> =>
          /\ DOMAIN q_params' = DOMAIN q_params
          /\ \A i \in DOMAIN q_params :
                /\ q_params'[i].lo >= q_params[i].lo
                /\ q_params'[i].hi <= q_params[i].hi]_vars

\* C14 witness: two training epochs have ended and Q-Scheduler.step() has
\* narrowed a bracket twice, from both sides.
C14_Witness ==
    /\ pc = "idle" /\ scheduler.epoch = 2
    /\ \E i \in DOMAIN q_params : q_params[i].lo = 2 /\ q_params[i].hi = 4

\* ------------------------------------------------------------- LR schedule
\* The LR Scheduler driven on its own through warmup and one epoch beyond, the
\* way forward drives it: step() once per batch, update_epoch() after the
\* last batch of an epoch.
LrStep ==
    /\ pc = "lr"
    /\ scheduler.batch_in_epoch < scheduler.batches_per_epoch
    /\ optimizer' = OptimizerStep(optimizer, scheduler)
    /\ scheduler' = SchedulerStep(scheduler)
    /\ UNCHANGED <<trainer_fields, q_params, model_mode, training_log, pc,
                   call_vars, trace, logged, outcome, count_vars, main_vars>>

LrUpdateEpoch ==
    /\ pc = "lr"
    /\ scheduler.batch_in_epoch = scheduler.batches_per_epoch
    /\ scheduler.epoch <= scheduler.warm_up_epoch
    /\ scheduler' = SchedulerUpdateEpoch(scheduler)
    /\ UNCHANGED <<trainer_fields, optimizer, q_params, model_mode, training_log,
                   pc, call_vars, trace, logged, outcome, count_vars, main_vars>>

InitLrSchedule ==
    /\ log_freq = 0
    /\ train_loader = 0
    /\ test_loader = 0
    /\ \E warm \in 0..MaxLrWarmUp, bpe \in 1..MaxLrBatches :
          scheduler = SchedulerInit(warm, bpe)
    /\ optimizer = get_optimizer
    /\ q_params = <<>>
    /\ model_mode = "init"
    /\ training_log = TrainingLogInit
    /\ pc = "lr"
    /\ train = TRUE
    /\ epoch = 0
    /\ batch = 0
    /\ dataloader = 0
    /\ trace = <<>>
    /\ logged = {}
    /\ outcome = "ok"
    /\ passes = 0
    /\ register_calls = 0
    /\ config_loads = 0
    /\ main_pc = "none"
    /\ args = NoArgs
    /\ wandb_log = FALSE
    /\ files = <<>>

NextLrSchedule == LrStep \/ LrUpdateEpoch

SpecLr == InitLrSchedule /\ [][NextLrSchedule]_vars

\* Comparison of two learning rates (fractions with positive denominators).
LrLess(a, b) == a.num * b.den < b.num * a.den

LrEq(a, b) == a.num * b.den = b.num * a.den

\* C15: at every (epoch, batch) position of a warmup epoch the learning rate
\* of the next batch of that epoch is strictly larger than this batch's, and
\* at batch 0 of epoch warm_up_epoch the learning rate is init_lr.
C15_WarmupRamp ==
    LET e == scheduler.epoch
        b == scheduler.batch_in_epoch
    IN /\ (e < scheduler.warm_up_epoch /\ b + 1 < scheduler.batches_per_epoch) =>
             LrLess(get_lr(scheduler, e, b), get_lr(scheduler, e, b + 1))
       /\ (e = scheduler.warm_up_epoch /\ b = 0) =>
             LrEq(get_lr(scheduler, e, b), InitLr)

\* C15 witness: the scheduler stands inside the second of three warmup
\* epochs, with batches before and after the current one.
C15_Witness ==
    /\ pc = "lr" /\ scheduler.warm_up_epoch = 3 /\ scheduler.epoch = 1
    /\ scheduler.batches_per_epoch >= 3 /\ scheduler.batch_in_epoch = 1

RegisterOps == <<"model.register", "model.forward", "q_scheduler.register">>

\* C16: what register has invoked is always an initial part of: the model's
\* registration, one calibration forward pass, q_scheduler.register(); the
\* Q-Scheduler is bound only when all three have run in that order, and a
\* register that returned has run all three.
C16_RegisterOrder ==
    passes = 0 =>
        /\ Len(trace) <= Len(RegisterOps)
        /\ trace = SubSeq(RegisterOps, 1, Len(trace))
        /\ q_params # <<>> => trace = RegisterOps
        /\ pc = "q_register" => trace = SubSeq(RegisterOps, 1, 2)
        /\ pc = "idle" => (trace = RegisterOps /\ q_params # <<>>)

\* C16 witness: register has returned and no train/test call was issued yet.
C16_Witness ==
    pc = "idle" /\ passes = 0 /\ register_calls = 1 /\ trace = RegisterOps

\* C17: with log_freq > 0, in any train or test call the batches for which a
\* log record has been emitted are exactly the processed batches whose
\* zero-based index is a multiple of log_freq: the first batch always, and
\* none when the data source is empty.
C17_LogEveryLogFreq ==
    (InCall /\ log_freq > 0) =>
        /\ logged = {b \in 0..(batch - 1) : b % log_freq = 0}
        /\ batch >= 1 => 0 \in logged
        /\ dataloader = 0 => logged = {}

\* C17 witness: a pass over two batches with log_freq 2 has returned, having
\* logged its first batch and skipped its second.
C17_Witness ==
    Returned /\ log_freq = 2 /\ batch = 2 /\ logged = {0}

C19_MainRunsAllEpochs ==
    MainEnded =>
        /\ main_pc = "done"
        /\ outcome = "ok"
        /\ register_calls = 1
        /\ Count(files, "trainer_config.json") = 1
        /\ passes = 2 * args.epochs

=============================================================================
